---- MODULE Spec2Model ----
(***************************************************************************)
(* A model of cli/dependency_checker.py: the DependencyChecker class.      *)
(*                                                                         *)
(* Strings are sequences of tokens.  A token is a one-character string     *)
(* where the code looks at characters (the manifest parsers) and an opaque *)
(* chunk of text elsewhere (titles, identifiers, package names), so that   *)
(* f-string formatting is concatenation and '' is the empty sequence.      *)
(***************************************************************************)
EXTENDS Integers, Sequences, FiniteSets, TLC

VARIABLES
    pc,                    \* position of the running call
    package_json,          \* <directory>/package.json: absent, or its content
    requirements_txt,      \* <directory>/requirements.txt: absent, or its lines
    requests,              \* module global: TRUE iff `import requests` worked
    vulnerabilities,       \* scan_directory: the result list
    seen_vulnerabilities,  \* scan_directory: the set of keys already added
    nvd,                   \* locals of the running _check_nvd_vulnerabilities
    audit,                 \* what each audit subprocess did when it was run
    calls,                 \* the subprocesses run so far, in order
    ran,                   \* the providers scan_directory has invoked, in order
    returned,              \* what each provider call returned, in order
    http,                  \* the HTTP requests and sleeps so far, in order
    queries,               \* per request of the running batch: its outcome
    arg,                   \* argument of a helper called on its own
    ret                    \* its return value (or the exception it raised)

vars == <<pc, package_json, requirements_txt, requests, vulnerabilities,
          seen_vulnerabilities, nvd, audit, calls, ran, returned, http,
          queries, arg, ret>>

----------------------------------------------------------------------------
(* Bounds of the model *)

MaxLineLen == 4      \* characters in a requirements.txt line
MaxVerLen == 3       \* characters in a package.json version string
MaxPackages == 3     \* packages in one _check_nvd_vulnerabilities call
MaxBlocks == 2       \* entries in one CVSS metric list of a record

----------------------------------------------------------------------------
(* Strings *)

Letters ==
    {"a","b","c","d","e","f","g","h","i","j","k","l","m",
     "n","o","p","q","r","s","t","u","v","w","x","y","z",
     "A","B","C","D","E","F","G","H","I","J","K","L","M",
     "N","O","P","Q","R","S","T","U","V","W","X","Y","Z"}

Digits == {"0","1","2","3","4","5","6","7","8","9"}

\* str.strip() and the regex class \s
Whitespace == {" ", "\t", "\n", "\r", "\f"}

\* [a-zA-Z0-9_-]
NameChars == Letters \cup Digits \cup {"_", "-"}

\* [><=!]
OperatorChars == {">", "<", "=", "!"}

\* [0-9.]
VersionChars == Digits \cup {"."}

\* [\^~>=<]
CleanedChars == {"^", "~", ">", "=", "<"}

RECURSIVE LStrip(_)
LStrip(s) ==
    IF s # <<>> /\ Head(s) \in Whitespace THEN LStrip(Tail(s)) ELSE s

RECURSIVE RStrip(_)
RStrip(s) ==
    IF s # <<>> /\ s[Len(s)] \in Whitespace
    THEN RStrip(SubSeq(s, 1, Len(s) - 1))
    ELSE s

\* str.strip()
Strip(s) == RStrip(LStrip(s))

\* the length of the longest prefix of s made of characters of class C:
\* what a greedy C* consumes (the classes that follow one another in the
\* patterns below are disjoint, so the regex engine never backtracks)
RECURSIVE SpanLen(_, _)
SpanLen(s, C) ==
    IF s # <<>> /\ Head(s) \in C THEN 1 + SpanLen(Tail(s), C) ELSE 0

Drop(s, n) == SubSeq(s, n + 1, Len(s))

Take(s, n) == SubSeq(s, 1, n)

\* re.sub(r'[\^~>=<]', '', version)
ReSubCleaned(version) == SelectSeq(version, LAMBDA c : c \notin CleanedChars)

\* all sequences over S of length at most n
SeqsUpTo(S, n) == UNION {[1..k -> S] : k \in 0..n}

----------------------------------------------------------------------------
(* Results of a call: a value, or an exception that propagates *)

Returns(v) == [exc |-> "none", value |-> v]

Raises(e) == [exc |-> e, value |-> <<>>]

----------------------------------------------------------------------------
(* _parse_requirements_txt *)

\* re.match(r'^([a-zA-Z0-9_-]+)\s*([><=!]+)\s*([0-9.]+)', line)
MatchVersioned(line) ==
    LET n  == SpanLen(line, NameChars)
        r1 == Drop(line, n)
        r2 == Drop(r1, SpanLen(r1, Whitespace))
        o  == SpanLen(r2, OperatorChars)
        r3 == Drop(r2, o)
        r4 == Drop(r3, SpanLen(r3, Whitespace))
        v  == SpanLen(r4, VersionChars)
    IN  [matched |-> n > 0 /\ o > 0 /\ v > 0,
         group1 |-> Take(line, n),
         group3 |-> Take(r4, v)]

\* re.match(r'^([a-zA-Z0-9_-]+)', line)
MatchName(line) ==
    LET n == SpanLen(line, NameChars)
    IN  [matched |-> n > 0, group1 |-> Take(line, n)]

\* the body of the loop over the lines: what one line appends to packages
ParseLine(raw) ==
    LET line == Strip(raw)
    IN  IF line = <<>> \/ Head(line) = "#" THEN <<>>
        ELSE IF MatchVersioned(line).matched
             THEN << <<MatchVersioned(line).group1, MatchVersioned(line).group3>> >>
        ELSE IF MatchName(line).matched
             THEN << <<MatchName(line).group1, <<>> >> >>
        ELSE <<>>

RECURSIVE ParseLines(_)
ParseLines(lines) ==
    IF lines = <<>> THEN <<>>
    ELSE ParseLine(Head(lines)) \o ParseLines(Tail(lines))

\* file: [exists |-> BOOLEAN, lines |-> the lines read]
_parse_requirements_txt(file) ==
    IF ~file.exists THEN Returns(<<>>)       \* FileNotFoundError, caught
    ELSE Returns(ParseLines(file.lines))

----------------------------------------------------------------------------
(* _parse_package_json *)

\* A JSON value is modelled by its type and, for the parts the code reads,
\* its content.  package.json:
\*   [exists, json  : BOOLEAN       the file is there / json.load parses it
\*    top           : its top-level value's type ("obj" is a dict)
\*    dependencies, devDependencies : a group]
\* group: [t : "missing" or the value's type, entries : the dict's items in
\*         order, each [name, vt : the version value's type, version]]

\* for pkg_name, version in deps.items(): ... re.sub(..., version).strip()
RECURSIVE CleanEntries(_)
CleanEntries(entries) ==
    IF entries = <<>> THEN Returns(<<>>)
    ELSE IF Head(entries).vt # "str" THEN Raises("TypeError")
    ELSE LET rest == CleanEntries(Tail(entries))
             clean_version == Strip(ReSubCleaned(Head(entries).version))
         IN  IF rest.exc # "none" THEN rest
             ELSE Returns(<< <<Head(entries).name, clean_version>> >> \o rest.value)

\* deps = data.get(dep_type, {}); for ... in deps.items()
GroupPackages(group) ==
    IF group.t = "missing" THEN Returns(<<>>)
    ELSE IF group.t # "obj" THEN Raises("AttributeError")
    ELSE CleanEntries(group.entries)

_parse_package_json(file) ==
    IF ~file.exists THEN Returns(<<>>)          \* FileNotFoundError, caught
    ELSE IF ~file.json THEN Returns(<<>>)       \* JSONDecodeError, caught
    ELSE IF file.top # "obj" THEN Raises("AttributeError")   \* data.get
    ELSE LET deps == GroupPackages(file.dependencies)
             dev  == GroupPackages(file.devDependencies)
         IN  IF deps.exc # "none" THEN deps
             ELSE IF dev.exc # "none" THEN dev
             ELSE Returns(deps.value \o dev.value)

----------------------------------------------------------------------------
(* Findings *)

Finding(package_type, package, description) ==
    [package_type |-> package_type, package |-> package,
     description |-> description]

\* dict.get(key, default) of a value that is [has |-> BOOLEAN, v |-> ...]
Get(field, default) == IF field.has THEN field.v ELSE default

Some(v) == [has |-> TRUE, v |-> v]

None == [has |-> FALSE, v |-> <<>>]

\* sep.join(parts)
RECURSIVE Join(_, _)
Join(parts, sep) ==
    IF parts = <<>> THEN <<>>
    ELSE IF Len(parts) = 1 THEN parts[1]
    ELSE parts[1] \o sep \o Join(Tail(parts), sep)

\* what an audit subprocess did: [kind, doc]
\*   "timeout"  subprocess.TimeoutExpired
\*   "notfound" FileNotFoundError
\*   "empty"    it ran and printed nothing
\*   "badjson"  it printed text json.loads rejects
\*   "json"     it printed the JSON document doc
FailureKinds == {"timeout", "notfound", "badjson"}

----------------------------------------------------------------------------
(* _check_npm_vulnerabilities *)

\* doc: [format : "v7" ('vulnerabilities' in data), "v6" ('advisories' in
\*       data) or "other",
\*       vulnerabilities : items of data['vulnerabilities'], each
\*            [name, isdict, via : each [isdict, title, cve, url]],
\*       advisories : values of data['advisories'], each
\*            [module_name, title, severity] of optional fields]

ViaPart(v) ==
    LET desc1 == IF v.cve # <<>> THEN v.cve \o <<": ">> \o v.title ELSE v.title
    IN  IF v.url # <<>> THEN desc1 \o <<" - ">> \o v.url ELSE desc1

RECURSIVE DescriptionParts(_)
DescriptionParts(via) ==
    IF via = <<>> THEN <<>>
    ELSE (IF Head(via).isdict THEN <<ViaPart(Head(via))>> ELSE <<>>)
         \o DescriptionParts(Tail(via))

RECURSIVE NpmV7(_)
NpmV7(items) ==
    IF items = <<>> THEN <<>>
    ELSE LET parts == DescriptionParts(Head(items).via)
         IN  (IF Head(items).isdict /\ parts # <<>>
              THEN <<Finding("npm", Head(items).name, Join(parts, <<" | ">>))>>
              ELSE <<>>)
             \o NpmV7(Tail(items))

RECURSIVE NpmV6(_)
NpmV6(advisories) ==
    IF advisories = <<>> THEN <<>>
    ELSE <<Finding("npm",
                   Get(Head(advisories).module_name, <<"unknown">>),
                   Get(Head(advisories).title, <<"No title">>)
                     \o <<" - Severity: ">>
                     \o Get(Head(advisories).severity, <<"unknown">>))>>
         \o NpmV6(Tail(advisories))

\* the provider with subprocess.TimeoutExpired left out of its except clause
CheckNpmTimeoutEscapes(out) ==
    IF out.kind = "timeout" THEN Raises("TimeoutExpired")
    ELSE IF out.kind \in FailureKinds THEN Returns(<<>>)
    ELSE IF out.kind = "empty" THEN Returns(<<>>)
    ELSE IF out.doc.format = "v7" THEN Returns(NpmV7(out.doc.vulnerabilities))
    ELSE IF out.doc.format = "v6" THEN Returns(NpmV6(out.doc.advisories))
    ELSE Returns(<<>>)

_check_npm_vulnerabilities(out) ==
    IF out.kind \in FailureKinds THEN Returns(<<>>)     \* except ...: pass
    ELSE IF out.kind = "empty" THEN Returns(<<>>)       \* if result.stdout:
    ELSE IF out.doc.format = "v7" THEN Returns(NpmV7(out.doc.vulnerabilities))
    ELSE IF out.doc.format = "v6" THEN Returns(NpmV6(out.doc.advisories))
    ELSE Returns(<<>>)

----------------------------------------------------------------------------
(* _check_python_vulnerabilities *)

\* pip-audit doc: [has_dependencies, dependencies : each
\*                   [name : optional, vulns : each [id, description : optional]]]
RECURSIVE PipAuditVulns(_, _)
PipAuditVulns(pkg_name, vulns) ==
    IF vulns = <<>> THEN <<>>
    ELSE <<Finding("pip", pkg_name,
                   Get(Head(vulns).id, <<"Unknown CVE">>) \o <<": ">>
                     \o Get(Head(vulns).description,
                            <<"No description available">>))>>
         \o PipAuditVulns(pkg_name, Tail(vulns))

RECURSIVE PipAuditDeps(_)
PipAuditDeps(deps) ==
    IF deps = <<>> THEN <<>>
    ELSE PipAuditVulns(Get(Head(deps).name, <<"unknown">>), Head(deps).vulns)
         \o PipAuditDeps(Tail(deps))

PipAuditFindings(doc) ==
    IF doc.has_dependencies THEN PipAuditDeps(doc.dependencies) ELSE <<>>

\* safety doc: the list's elements, each [islist, items]
RECURSIVE SafetyFindings(_)
SafetyFindings(doc) ==
    IF doc = <<>> THEN <<>>
    ELSE (IF Head(doc).islist /\ Len(Head(doc).items) >= 4
          THEN <<Finding("pip", Head(doc).items[1], Head(doc).items[4])>>
          ELSE <<>>)
         \o SafetyFindings(Tail(doc))

\* the first try block with its return outside `if result.stdout:`
PipAuditReturnsWithoutOutput(pip_audit) == pip_audit.kind \in {"json", "empty"}

\* TRUE iff the first try block returns: pip-audit printed something and
\* json.loads took it
PipAuditReturns(pip_audit) == pip_audit.kind = "json"

\* safety is only run when the first try block did not return
_check_python_vulnerabilities(pip_audit, safety) ==
    IF PipAuditReturns(pip_audit) THEN Returns(PipAuditFindings(pip_audit.doc))
    ELSE IF safety.kind = "json" THEN Returns(SafetyFindings(safety.doc))
    ELSE Returns(<<>>)

----------------------------------------------------------------------------
(* _check_nvd_vulnerabilities: one vulnerability record *)

\* self.request_delay, in milliseconds
request_delay == 600

\* description[:200]
DescriptionLimit == 200

\* the metric keys tried oldest first
CvssVersionsOldestFirst == <<"cvssMetricV2", "cvssMetricV30", "cvssMetricV31">>

\* for cvss_version in [...]
CvssVersions == <<"cvssMetricV31", "cvssMetricV30", "cvssMetricV2">>

\* vuln_item['cve']: [id : optional,
\*                    descriptions : each [lang, value : optional],
\*                    metrics : for each key of CvssVersions
\*                        [present : the key is in metrics,
\*                         blocks : its list, each block the two fields read
\*                                  of its cvssData, both optional]]

\* the loop over descriptions: the first one whose lang is 'en'
RECURSIVE EnglishDescription(_)
EnglishDescription(descriptions) ==
    IF descriptions = <<>> THEN <<"No description available">>
    ELSE IF Head(descriptions).lang = "en"
         THEN Get(Head(descriptions).value, <<"No description available">>)
    ELSE EnglishDescription(Tail(descriptions))

\* the loop over the metric keys still to try
RECURSIVE SeverityInfo(_, _)
SeverityInfo(metrics, versions) ==
    IF versions = <<>> THEN <<>>
    ELSE LET m == metrics[Head(versions)]
         IN  IF m.present /\ m.blocks # <<>>
             THEN <<" [CVSS: ">> \o Get(m.blocks[1].baseScore, <<"N/A">>)
                  \o <<" - ">> \o Get(m.blocks[1].baseSeverity, <<"UNKNOWN">>)
                  \o <<"]">>
             ELSE SeverityInfo(metrics, Tail(versions))

VulnDescription(cve, version) ==
    LET description == EnglishDescription(cve.descriptions)
        truncated == IF Len(description) > DescriptionLimit
                     THEN Take(description, DescriptionLimit)
                     ELSE description
        vuln_description == Get(cve.id, <<"Unknown CVE">>) \o <<": ">>
                            \o truncated
                            \o SeverityInfo(cve.metrics, CvssVersions)
    IN  IF version # <<>>
        THEN vuln_description \o <<" (Package version: ">> \o version \o <<")">>
        ELSE vuln_description

RECURSIVE NvdFindings(_, _, _)
NvdFindings(items, pkg, package_type) ==
    IF items = <<>> THEN <<>>
    ELSE <<Finding(package_type, pkg[1], VulnDescription(Head(items), pkg[2]))>>
         \o NvdFindings(Tail(items), pkg, package_type)

\* keyword = f"npm {pkg_name}" / f"python {pkg_name}"
Keyword(package_type, pkg_name) ==
    IF package_type = "npm" THEN <<"npm ">> \o pkg_name
    ELSE <<"python ">> \o pkg_name

\* One pass of the loop body for a response
\*   [error : requests.get raised a RequestException,
\*    status_code, json : response.json() parses the body,
\*    data : [has_vulnerabilities, vulnerabilities]]
\* gives what it appends and whether it reaches time.sleep.
QueryResult(response, pkg, package_type) ==
    IF response.error THEN [found |-> <<>>, slept |-> FALSE]
    ELSE IF response.status_code # 200 THEN [found |-> <<>>, slept |-> TRUE]
    ELSE IF ~response.json THEN [found |-> <<>>, slept |-> FALSE]
    ELSE IF response.data.has_vulnerabilities
         THEN [found |-> NvdFindings(response.data.vulnerabilities, pkg,
                                     package_type),
               slept |-> TRUE]
    ELSE [found |-> <<>>, slept |-> TRUE]

----------------------------------------------------------------------------
(* scan_directory: merging one provider's findings into the result *)

Key(vuln) == <<vuln.package_type, vuln.package, vuln.description>>

\* the merge with the description left out of the key
RECURSIVE MergeByPackage(_, _, _)
MergeByPackage(result, seen, vulns) ==
    IF vulns = <<>> THEN [vulnerabilities |-> result, seen |-> seen]
    ELSE IF <<Head(vulns).package_type, Head(vulns).package>> \in seen
         THEN MergeByPackage(result, seen, Tail(vulns))
    ELSE MergeByPackage(Append(result, Head(vulns)),
                        seen \cup {<<Head(vulns).package_type, Head(vulns).package>>},
                        Tail(vulns))

\* for vuln in vulns: if key not in seen: append, add
RECURSIVE Merge(_, _, _)
Merge(result, seen, vulns) ==
    IF vulns = <<>> THEN [vulnerabilities |-> result, seen |-> seen]
    ELSE IF Key(Head(vulns)) \in seen THEN Merge(result, seen, Tail(vulns))
    ELSE Merge(Append(result, Head(vulns)), seen \cup {Key(Head(vulns))},
               Tail(vulns))

----------------------------------------------------------------------------
(* The inputs the model is run on *)

A == <<"a">>

B == <<"b">>

NoGroup == [t |-> "missing", entries |-> <<>>]

Group(entries) == [t |-> "obj", entries |-> entries]

Entry(name, version) == [name |-> name, vt |-> "str", version |-> version]

NoFile == [exists |-> FALSE, json |-> FALSE, top |-> "obj",
           dependencies |-> NoGroup, devDependencies |-> NoGroup]

JsonFile(top, deps, dev) ==
    [exists |-> TRUE, json |-> TRUE, top |-> top,
     dependencies |-> deps, devDependencies |-> dev]

\* package.json of the scanned directory: absent; not JSON; a JSON array;
\* {}; {"dependencies": {"a": "^1"}};
\* {"dependencies": {"a": "^1"}, "devDependencies": {"a": ""}}
PackageJsonFiles ==
    { NoFile,
      [NoFile EXCEPT !.exists = TRUE],
      JsonFile("arr", NoGroup, NoGroup),
      JsonFile("obj", NoGroup, NoGroup),
      JsonFile("obj", Group(<<Entry(A, <<"^", "1">>)>>), NoGroup),
      JsonFile("obj", Group(<<Entry(A, <<"^", "1">>)>>),
                      Group(<<Entry(A, <<>>)>>)) }

NoLines == [exists |-> FALSE, lines |-> <<>>]

Lines(lines) == [exists |-> TRUE, lines |-> lines]

\* requirements.txt of the scanned directory: absent; one comment; "a";
\* "a==1" and "a"
RequirementsFiles ==
    { NoLines,
      Lines(<< <<"#", " ", "c">> >>),
      Lines(<< <<"a">> >>),
      Lines(<< <<"a", "=", "=", "1">>, <<"a">> >>) }

NoNpmDoc == [format |-> "other", vulnerabilities |-> <<>>, advisories |-> <<>>]

Via(title, cve, url) == [isdict |-> TRUE, title |-> title, cve |-> cve, url |-> url]

\* what `npm audit --json` can do
NpmOutcomes ==
    { [kind |-> k, doc |-> NoNpmDoc] : k \in FailureKinds \cup {"empty"} }
    \cup
    { [kind |-> "json", doc |-> d] : d \in
        { NoNpmDoc,
          [NoNpmDoc EXCEPT !.format = "v7",
             !.vulnerabilities =
                << [name |-> A, isdict |-> TRUE,
                    via |-> << Via(<<"x">>, <<"CVE-1">>, <<>>),
                               [Via(<<>>, <<>>, <<>>) EXCEPT !.isdict = FALSE] >>] >>],
          [NoNpmDoc EXCEPT !.format = "v6",
             !.advisories =
                << [module_name |-> Some(A), title |-> Some(<<"x">>),
                    severity |-> Some(<<"high">>)],
                   [module_name |-> Some(A), title |-> Some(<<"x">>),
                    severity |-> Some(<<"high">>)],
                   [module_name |-> Some(A), title |-> None,
                    severity |-> Some(<<"high">>)] >>] } }

NoPipAuditDoc == [has_dependencies |-> FALSE, dependencies |-> <<>>]

\* what `pip-audit --format json` can do
PipAuditOutcomes ==
    { [kind |-> k, doc |-> NoPipAuditDoc] : k \in FailureKinds \cup {"empty"} }
    \cup
    { [kind |-> "json", doc |-> d] : d \in
        { NoPipAuditDoc,
          [has_dependencies |-> TRUE,
           dependencies |->
             << [name |-> Some(A),
                 vulns |-> << [id |-> Some(<<"CVE-1">>),
                               description |-> Some(<<"x">>)],
                              [id |-> Some(<<"CVE-2">>),
                               description |-> None] >>] >>] } }

\* what `safety check --json` can do
SafetyOutcomes ==
    { [kind |-> k, doc |-> <<>>] : k \in FailureKinds \cup {"empty"} }
    \cup
    { [kind |-> "json", doc |-> d] : d \in
        { << [islist |-> TRUE, items |-> <<A, <<"<2">>, <<"1">>, <<"y">>, <<"7">> >>],
             [islist |-> TRUE, items |-> <<B, <<"<2">>, <<"1">> >>],
             [islist |-> TRUE, items |-> <<A, <<"<2">>, <<"1">>, <<"y">>, <<"7">> >>] >> } }

NotRun(doc) == [kind |-> "notrun", doc |-> doc]

NoMetric == [present |-> FALSE, blocks |-> <<>>]

NoMetrics == [k \in {"cvssMetricV31", "cvssMetricV30", "cvssMetricV2"} |-> NoMetric]

Block(score, severity) == [baseScore |-> score, baseSeverity |-> severity]

Metric(blocks) == [present |-> TRUE, blocks |-> blocks]

Cve(id, descriptions, metrics) ==
    [id |-> id, descriptions |-> descriptions, metrics |-> metrics]

English(value) == [lang |-> "en", value |-> Some(value)]

NoData == [has_vulnerabilities |-> FALSE, vulnerabilities |-> <<>>]

Response(error, status_code, json, data) ==
    [error |-> error, status_code |-> status_code, json |-> json, data |-> data]

\* what one GET to the NVD endpoint can do: a network error, a 500, a 200
\* whose body is not JSON, a 200 with no record, with one, with two
Responses ==
    { Response(TRUE, 0, FALSE, NoData),
      Response(FALSE, 500, TRUE, NoData),
      Response(FALSE, 200, FALSE, NoData),
      Response(FALSE, 200, TRUE, NoData),
      Response(FALSE, 200, TRUE,
               [has_vulnerabilities |-> TRUE,
                vulnerabilities |-> <<Cve(Some(<<"CVE-1">>), <<English(<<"x">>)>>,
                                          NoMetrics)>>]),
      Response(FALSE, 200, TRUE,
               [has_vulnerabilities |-> TRUE,
                vulnerabilities |->
                  <<Cve(Some(<<"CVE-1">>), <<English(<<"x">>)>>, NoMetrics),
                    Cve(Some(<<"CVE-2">>), <<>>,
                        [NoMetrics EXCEPT !["cvssMetricV2"] =
                           Metric(<<Block(Some(<<"5.0">>), Some(<<"MEDIUM">>))>>)])>>]) }

----------------------------------------------------------------------------
(* scan_directory, step by step *)

NvdLoopPcs == {"nvd_npm_loop", "nvd_pip_loop", "nvd_loop"}

NoNvd == [packages |-> <<>>, package_type |-> "npm", i |-> 1,
          vulnerabilities |-> <<>>]

NoAudit == [npm |-> NotRun(NoNpmDoc), pip_audit |-> NotRun(NoPipAuditDoc),
            safety |-> NotRun(<<>>)]

\* a directory, an environment, and scan_directory about to start
Init ==
    /\ pc = "npm_audit"
    /\ package_json \in PackageJsonFiles
    /\ requirements_txt \in RequirementsFiles
    /\ requests \in BOOLEAN
    /\ vulnerabilities = <<>>
    /\ seen_vulnerabilities = {}
    /\ nvd = NoNvd
    /\ audit = NoAudit
    /\ calls = <<>>
    /\ ran = <<>>
    /\ returned = <<>>
    /\ http = <<>>
    /\ queries = <<>>
    /\ arg = <<>>
    /\ ret = Returns(<<>>)

\* a provider call has come back with r: its findings are merged and the
\* scan goes on to next, or its exception leaves scan_directory
ProviderReturned(provider, r, next) ==
    IF r.exc = "none"
    THEN LET m == Merge(vulnerabilities, seen_vulnerabilities, r.value)
         IN  /\ vulnerabilities' = m.vulnerabilities
             /\ seen_vulnerabilities' = m.seen
             /\ returned' = Append(returned, [provider |-> provider, vulns |-> r.value])
             /\ pc' = next
    ELSE /\ pc' = "raised"
         /\ UNCHANGED <<vulnerabilities, seen_vulnerabilities, returned>>

\* the subprocesses _check_python_vulnerabilities runs
PythonToolsRun(pip_audit) ==
    IF PipAuditReturns(pip_audit) THEN <<"pip-audit">>
    ELSE <<"pip-audit", "safety">>

\* lines 28-35
LocalNpm ==
    /\ pc = "npm_audit"
    /\ IF package_json.exists
       THEN \E out \in NpmOutcomes :
               /\ audit' = [audit EXCEPT !.npm = out]
               /\ calls' = Append(calls, "npm")
               /\ ran' = Append(ran, "local_npm")
               /\ ProviderReturned("local_npm", _check_npm_vulnerabilities(out),
                                   "py_audit")
       ELSE /\ pc' = "py_audit"
            /\ UNCHANGED <<audit, calls, ran, returned, vulnerabilities,
                           seen_vulnerabilities>>
    /\ UNCHANGED <<package_json, requirements_txt, requests, nvd, http,
                   queries, arg, ret>>

\* lines 37-44
LocalPython ==
    /\ pc = "py_audit"
    /\ IF requirements_txt.exists
       THEN \E pip_audit \in PipAuditOutcomes, safety \in SafetyOutcomes :
               LET tools == PythonToolsRun(pip_audit)
                   safety_ran == \E k \in 1..Len(tools) : tools[k] = "safety"
               IN  /\ audit' = [audit EXCEPT !.pip_audit = pip_audit,
                                             !.safety = IF safety_ran THEN safety
                                                        ELSE @]
                   /\ calls' = calls \o tools
                   /\ ran' = Append(ran, "local_pip")
                   /\ ProviderReturned("local_pip",
                         _check_python_vulnerabilities(pip_audit, safety),
                         "nvd_npm")
       ELSE /\ pc' = "nvd_npm"
            /\ UNCHANGED <<audit, calls, ran, returned, vulnerabilities,
                           seen_vulnerabilities>>
    /\ UNCHANGED <<package_json, requirements_txt, requests, nvd, http,
                   queries, arg, ret>>

\* entering _check_nvd_vulnerabilities(packages, package_type)
NvdCall(provider, packages, package_type, loop) ==
    /\ nvd' = [packages |-> packages, package_type |-> package_type, i |-> 1,
               vulnerabilities |-> <<>>]
    /\ queries' = <<>>
    /\ ran' = Append(ran, provider)
    /\ pc' = loop

\* lines 47-52
RemoteNpm ==
    /\ pc = "nvd_npm"
    /\ IF requests /\ package_json.exists
       THEN LET npm_packages == _parse_package_json(package_json)
            IN  IF npm_packages.exc # "none"
                THEN /\ pc' = "raised"
                     /\ UNCHANGED <<nvd, queries, ran>>
                ELSE IF npm_packages.value # <<>>
                THEN NvdCall("nvd_npm", npm_packages.value, "npm", "nvd_npm_loop")
                ELSE /\ pc' = "nvd_pip"
                     /\ UNCHANGED <<nvd, queries, ran>>
       ELSE /\ pc' = "nvd_pip"
            /\ UNCHANGED <<nvd, queries, ran>>
    /\ UNCHANGED <<package_json, requirements_txt, requests, vulnerabilities,
                   seen_vulnerabilities, audit, calls, returned, http, arg, ret>>

\* lines 47, 59-63
RemotePython ==
    /\ pc = "nvd_pip"
    /\ IF requests /\ requirements_txt.exists
       THEN LET python_packages == _parse_requirements_txt(requirements_txt)
            IN  IF python_packages.exc # "none"
                THEN /\ pc' = "raised"
                     /\ UNCHANGED <<nvd, queries, ran>>
                ELSE IF python_packages.value # <<>>
                THEN NvdCall("nvd_pip", python_packages.value, "pip", "nvd_pip_loop")
                ELSE /\ pc' = "done"
                     /\ UNCHANGED <<nvd, queries, ran>>
       ELSE /\ pc' = "done"
            /\ UNCHANGED <<nvd, queries, ran>>
    /\ UNCHANGED <<package_json, requirements_txt, requests, vulnerabilities,
                   seen_vulnerabilities, audit, calls, returned, http, arg, ret>>

\* the loop pass with `break` for `continue` in the except clause
LoopPassBreaksOnError(response) ==
    LET pkg == nvd.packages[nvd.i]
        q == QueryResult(response, pkg, nvd.package_type)
    IN  [vulnerabilities |-> nvd.vulnerabilities \o q.found,
         i |-> IF response.error \/ (response.status_code = 200 /\ ~response.json)
               THEN Len(nvd.packages) + 1
               ELSE nvd.i + 1,
         events |-> <<[ev |-> "get", delay |-> 0,
                       keyword |-> Keyword(nvd.package_type, pkg[1])]>>
                    \o (IF q.slept
                        THEN <<[ev |-> "sleep", delay |-> request_delay,
                                keyword |-> <<>>]>>
                        ELSE <<>>)]

\* what one pass of the loop does to the loop's state, given its response:
\* the findings appended, the index of the next package, the HTTP events
LoopPass(response) ==
    LET pkg == nvd.packages[nvd.i]
        q == QueryResult(response, pkg, nvd.package_type)
    IN  [vulnerabilities |-> nvd.vulnerabilities \o q.found,
         i |-> nvd.i + 1,
         events |-> <<[ev |-> "get", delay |-> 0,
                       keyword |-> Keyword(nvd.package_type, pkg[1])]>>
                    \o (IF q.slept
                        THEN <<[ev |-> "sleep", delay |-> request_delay,
                                keyword |-> <<>>]>>
                        ELSE <<>>)]

\* lines 267-334: one pass of the loop over the packages
NvdQuery ==
    /\ pc \in NvdLoopPcs
    /\ requests
    /\ nvd.i <= Len(nvd.packages)
    /\ \E response \in Responses :
          LET pass == LoopPass(response)
          IN  /\ nvd' = [nvd EXCEPT !.i = pass.i,
                                    !.vulnerabilities = pass.vulnerabilities]
              /\ http' = http \o pass.events
              /\ queries' = Append(queries, [pkg |-> nvd.packages[nvd.i],
                                             response |-> response])
    /\ UNCHANGED <<pc, package_json, requirements_txt, requests,
                   vulnerabilities, seen_vulnerabilities, audit, calls, ran,
                   returned, arg, ret>>

\* lines 262-263, 336: _check_nvd_vulnerabilities returns; in scan_directory
\* its findings are merged (lines 53-57, 64-68)
NvdReturn ==
    /\ pc \in NvdLoopPcs
    /\ ~requests \/ nvd.i > Len(nvd.packages)
    /\ LET result == IF requests THEN nvd.vulnerabilities ELSE <<>>
       IN  CASE pc = "nvd_npm_loop" ->
                  /\ ProviderReturned("nvd_npm", Returns(result), "nvd_pip")
                  /\ UNCHANGED ret
             [] pc = "nvd_pip_loop" ->
                  /\ ProviderReturned("nvd_pip", Returns(result), "done")
                  /\ UNCHANGED ret
             [] OTHER ->
                  /\ ret' = Returns(result)
                  /\ pc' = "return"
                  /\ UNCHANGED <<vulnerabilities, seen_vulnerabilities, returned>>
    /\ UNCHANGED <<package_json, requirements_txt, requests, nvd, audit, calls,
                   ran, http, queries, arg>>

Next ==
    \/ LocalNpm
    \/ LocalPython
    \/ RemoteNpm
    \/ RemotePython
    \/ NvdQuery
    \/ NvdReturn

Spec == Init /\ [][Next]_vars

----------------------------------------------------------------------------
(* _check_nvd_vulnerabilities called on its own *)

\* no scan is running: the scan's own state stays as constructed
NoScan ==
    /\ package_json = NoFile
    /\ requirements_txt = NoLines
    /\ vulnerabilities = <<>>
    /\ seen_vulnerabilities = {}
    /\ audit = NoAudit
    /\ calls = <<>>
    /\ ran = <<>>
    /\ returned = <<>>
    /\ http = <<>>
    /\ queries = <<>>

NonEmptySeqsUpTo(S, n) == UNION {[1..k -> S] : k \in 1..n}

\* the (name, version) pairs a manifest parser can hand over
PackagePairs == { <<A, <<>> >>, <<B, <<"1">> >> }

InitNvd ==
    /\ NoScan
    /\ pc = "nvd_loop"
    /\ requests \in BOOLEAN
    /\ \E packages \in NonEmptySeqsUpTo(PackagePairs, MaxPackages),
          package_type \in {"npm", "pip"} :
          /\ nvd = [packages |-> packages, package_type |-> package_type,
                    i |-> 1, vulnerabilities |-> <<>>]
          /\ arg = <<packages, package_type>>
    /\ ret = Returns(<<>>)

NextNvd ==
    \/ NvdQuery
    \/ NvdReturn

SpecNvd == InitNvd /\ [][NextNvd]_vars

----------------------------------------------------------------------------
(* One record of a response, formatted on its own (lines 293-327) *)

Blocks == { Block(None, None),
            Block(Some(<<"5.0">>), None),
            Block(Some(<<"9.8">>), Some(<<"CRITICAL">>)) }

Metrics == { NoMetric } \cup { Metric(b) : b \in SeqsUpTo(Blocks, MaxBlocks) }

Cves ==
    { Cve(Some(<<"CVE-1">>), d, m) :
        d \in { <<>>, <<[lang |-> "es", value |-> Some(<<"z">>)], English(<<"x">>)>> },
        m \in [{"cvssMetricV31", "cvssMetricV30", "cvssMetricV2"} -> Metrics] }

InitRecord ==
    /\ NoScan
    /\ pc = "call"
    /\ requests = TRUE
    /\ nvd = NoNvd
    /\ \E cve \in Cves, version \in { <<>>, <<"1">> } :
          arg = [cve |-> cve, pkg |-> <<A, version>>]
    /\ ret = Returns(<<>>)

FormatRecord ==
    /\ pc = "call"
    /\ ret' = Returns(NvdFindings(<<arg.cve>>, arg.pkg, "npm"))
    /\ pc' = "return"
    /\ UNCHANGED <<package_json, requirements_txt, requests, vulnerabilities,
                   seen_vulnerabilities, nvd, audit, calls, ran, returned,
                   http, queries, arg>>

SpecRecord == InitRecord /\ [][FormatRecord]_vars

----------------------------------------------------------------------------
(* _parse_package_json called on its own *)

VersionAlphabet == {"^", ">", "=", " ", "1"}

VersionStrings == SeqsUpTo(VersionAlphabet, MaxVerLen)

NotAString == [name |-> A, vt |-> "num", version |-> <<>>]

\* the value under "dependencies"
DependenciesGroups ==
    { NoGroup, [NoGroup EXCEPT !.t = "arr"], [NoGroup EXCEPT !.t = "null"],
      Group(<<>>), Group(<<NotAString>>) }
    \cup { Group(<<Entry(A, v)>>) : v \in VersionStrings }
    \cup { Group(<<Entry(A, v), Entry(B, <<"1">>)>>) : v \in VersionStrings }

\* the value under "devDependencies"
DevDependenciesGroups ==
    { NoGroup, [NoGroup EXCEPT !.t = "str"], Group(<<>>),
      Group(<<Entry(A, <<"=", "1">>)>>),
      Group(<<Entry(B, <<"1">>), NotAString>>),
      Group(<<Entry(B, <<"1", " ", "1">>), Entry(A, <<>>)>>) }

ManifestFiles ==
    { NoFile, [NoFile EXCEPT !.exists = TRUE] }
    \cup { JsonFile(t, NoGroup, NoGroup) : t \in {"arr", "str", "num", "null"} }
    \cup { JsonFile("obj", deps, dev) :
             deps \in DependenciesGroups, dev \in DevDependenciesGroups }

InitPackageJson ==
    /\ NoScan
    /\ pc = "call"
    /\ requests = TRUE
    /\ nvd = NoNvd
    /\ arg \in ManifestFiles
    /\ ret = Returns(<<>>)

ParsePackageJson ==
    /\ pc = "call"
    /\ ret' = _parse_package_json(arg)
    /\ pc' = IF ret'.exc = "none" THEN "return" ELSE "raised"
    /\ UNCHANGED <<package_json, requirements_txt, requests, vulnerabilities,
                   seen_vulnerabilities, nvd, audit, calls, ran, returned,
                   http, queries, arg>>

SpecPackageJson == InitPackageJson /\ [][ParsePackageJson]_vars

----------------------------------------------------------------------------
(* _parse_requirements_txt called on its own *)

LineAlphabet == {"f", "-", "e", " ", ">", "=", "1", ".", "#", ":", "/"}

LineStrings == SeqsUpTo(LineAlphabet, MaxLineLen)

\* a file of one line, alone or after a comment line and before a bare name
InitRequirements ==
    /\ NoScan
    /\ pc = "call"
    /\ requests = TRUE
    /\ nvd = NoNvd
    /\ \E line \in LineStrings :
          arg \in { Lines(<<line>>),
                    Lines(<< <<"#">>, line, <<"f">> >>) }
    /\ ret = Returns(<<>>)

ParseRequirementsTxt ==
    /\ pc = "call"
    /\ ret' = _parse_requirements_txt(arg)
    /\ pc' = "return"
    /\ UNCHANGED <<package_json, requirements_txt, requests, vulnerabilities,
                   seen_vulnerabilities, nvd, audit, calls, ran, returned,
                   http, queries, arg>>

SpecRequirements == InitRequirements /\ [][ParseRequirementsTxt]_vars

----------------------------------------------------------------------------
(* Vocabulary of the properties *)

RECURSIVE Flatten(_)
Flatten(entries) ==
    IF entries = <<>> THEN <<>>
    ELSE Head(entries).vulns \o Flatten(Tail(entries))

\* every finding a provider has handed to scan_directory, in order
Produced == Flatten(returned)

Elements(seq) == { seq[k] : k \in 1..Len(seq) }

Count(seq, x) == Cardinality({ k \in 1..Len(seq) : seq[k] = x })

FirstIndex(seq, x) ==
    CHOOSE i \in 1..Len(seq) :
        seq[i] = x /\ \A j \in 1..(i - 1) : seq[j] # x

HasReturned(provider) ==
    \E k \in 1..Len(returned) : returned[k].provider = provider

ResultOf(provider) ==
    returned[CHOOSE k \in 1..Len(returned) : returned[k].provider = provider].vulns

Finished == pc \in {"done", "raised"}

\* C1: when scan_directory returns, its list holds no finding twice, holds
\* exactly the findings the invoked providers produced, and lists them in
\* the order of their first occurrence; findings that differ in one field
\* of (package_type, package, description) are different findings and are
\* all kept.
C1_DedupFirstSeen ==
    pc = "done" =>
        /\ \A i, j \in 1..Len(vulnerabilities) :
              i # j => vulnerabilities[i] # vulnerabilities[j]
        /\ Elements(vulnerabilities) = Elements(Produced)
        /\ \A i, j \in 1..Len(vulnerabilities) :
              i < j => FirstIndex(Produced, vulnerabilities[i])
                         < FirstIndex(Produced, vulnerabilities[j])

\* two providers produced the same finding, which is listed once, and the
\* result also holds a finding that differs from it in package_type alone
C1_Witness ==
    /\ pc = "done"
    /\ \E p, q \in 1..Len(returned) :
          /\ p # q
          /\ Elements(returned[p].vulns) \cap Elements(returned[q].vulns) # {}
    /\ \E i, j \in 1..Len(vulnerabilities) :
          /\ vulnerabilities[i].package_type # vulnerabilities[j].package_type
          /\ vulnerabilities[i].package = vulnerabilities[j].package
          /\ vulnerabilities[i].description = vulnerabilities[j].description
    /\ Len(Produced) > Len(vulnerabilities)

\* a query that yields nothing: network error, non-200 status, non-JSON body
Failed(response) ==
    response.error \/ response.status_code # 200 \/ ~response.json

RECURSIVE FindingsOfSucceeded(_, _)
FindingsOfSucceeded(qs, package_type) ==
    IF qs = <<>> THEN <<>>
    ELSE (IF Failed(Head(qs).response) THEN <<>>
          ELSE NvdFindings(Head(qs).response.data.vulnerabilities,
                           Head(qs).pkg, package_type))
         \o FindingsOfSucceeded(Tail(qs), package_type)

\* C2: when _check_nvd_vulnerabilities returns, every package of the list
\* has been queried, in order, whichever queries failed, and the result is
\* the findings of the queries that did not fail, in package order.
C2_ErrorIsolation ==
    (pc = "return" /\ requests) =>
        /\ ret.exc = "none"
        /\ Len(queries) = Len(arg[1])
        /\ \A k \in 1..Len(queries) : queries[k].pkg = arg[1][k]
        /\ ret.value = FindingsOfSucceeded(queries, arg[2])

\* package 2 of 3 met a network error; the result holds findings of
\* packages 1 and 3
C2_Witness ==
    /\ pc = "return"
    /\ Len(queries) = 3
    /\ queries[2].response.error
    /\ ~Failed(queries[1].response)
    /\ ~Failed(queries[3].response)
    /\ queries[1].pkg # queries[3].pkg
    /\ \E i, j \in 1..Len(ret.value) :
          /\ ret.value[i].package = queries[1].pkg[1]
          /\ ret.value[j].package = queries[3].pkg[1]

\* C3: every HTTP request that is followed by anything is followed by a
\* sleep of request_delay: no two requests without a sleep between them.
C3_SleepAfterEveryQuery ==
    \A k \in 1..(Len(http) - 1) :
        http[k].ev = "get" =>
            http[k + 1].ev = "sleep" /\ http[k + 1].delay = request_delay


\* the providers scan_directory has to invoke for the directory at hand
ProvidersDue ==
    (IF package_json.exists THEN <<"local_npm">> ELSE <<>>)
    \o (IF requirements_txt.exists THEN <<"local_pip">> ELSE <<>>)
    \o (IF requests /\ package_json.exists
           /\ _parse_package_json(package_json).value # <<>>
        THEN <<"nvd_npm">> ELSE <<>>)
    \o (IF requests /\ requirements_txt.exists
           /\ _parse_requirements_txt(requirements_txt).value # <<>>
        THEN <<"nvd_pip">> ELSE <<>>)

SomeToolFailed ==
    \/ audit.npm.kind \in FailureKinds
    \/ audit.pip_audit.kind \in FailureKinds
    \/ audit.safety.kind \in FailureKinds

RECURSIVE KeywordsOf(_, _)
KeywordsOf(label, packages) ==
    IF packages = <<>> THEN <<>>
    ELSE << <<label>> \o Head(packages)[1] >> \o KeywordsOf(label, Tail(packages))

RECURSIVE Lookups(_)
Lookups(events) ==
    IF events = <<>> THEN <<>>
    ELSE (IF Head(events).ev = "get" THEN <<Head(events).keyword>> ELSE <<>>)
         \o Lookups(Tail(events))

\* C5: once a scan_directory call is over, the remote lookups made are
\* exactly one per pair parsed from each manifest present, npm names under
\* the npm keyword and Python names under the python keyword; none for an
\* absent manifest; none at all without the HTTP client library, and then
\* the call returns the (merged) findings of the local providers.
C5_OneLookupPerReference ==
    Finished =>
        /\ Lookups(http) =
              (IF requests /\ package_json.exists
               THEN KeywordsOf("npm ", _parse_package_json(package_json).value)
               ELSE <<>>)
              \o (IF requests /\ requirements_txt.exists
                  THEN KeywordsOf("python ",
                          _parse_requirements_txt(requirements_txt).value)
                  ELSE <<>>)
        /\ ~requests =>
              /\ pc = "done"
              /\ \A k \in 1..Len(returned) :
                    returned[k].provider \in {"local_npm", "local_pip"}
              /\ Elements(vulnerabilities) = Elements(Produced)

PrimaryFailed == audit.pip_audit.kind \in {"notfound", "timeout", "empty", "badjson"}

\* C6: safety is run exactly when pip-audit was run and was not found,
\* timed out, printed nothing or printed invalid JSON; neither tool is run
\* twice; the provider returns the findings of pip-audit's report when
\* pip-audit did not fail, else those of safety's report, else (safety
\* failed too) the empty list.
C6_SingleFallback ==
    /\ Count(calls, "pip-audit") <= 1
    /\ Count(calls, "safety") <= 1
    /\ Count(calls, "safety") = 1 <=>
          (Count(calls, "pip-audit") = 1 /\ PrimaryFailed)
    /\ Count(calls, "pip-audit") = 1 =>
          /\ HasReturned("local_pip")
          /\ ResultOf("local_pip") =
                IF ~PrimaryFailed THEN PipAuditFindings(audit.pip_audit.doc)
                ELSE IF audit.safety.kind = "json"
                     THEN SafetyFindings(audit.safety.doc)
                ELSE <<>>

\* pip-audit printed nothing, safety ran once and its findings were returned
C6_Witness ==
    /\ audit.pip_audit.kind = "empty"
    /\ calls # <<>>
    /\ calls[Len(calls)] = "safety"
    /\ HasReturned("local_pip")
    /\ ResultOf("local_pip") # <<>>
    /\ ResultOf("local_pip") = SafetyFindings(audit.safety.doc)


\* a metric list with a block in it
Populated(m) == m.present /\ m.blocks # <<>>

SuffixOf(block) ==
    <<" [CVSS: ">>
    \o (IF block.baseScore.has THEN block.baseScore.v ELSE <<"N/A">>)
    \o <<" - ">>
    \o (IF block.baseSeverity.has THEN block.baseSeverity.v ELSE <<"UNKNOWN">>)
    \o <<"]">>

ExpectedSuffix(metrics) ==
    CASE Populated(metrics["cvssMetricV31"]) ->
            SuffixOf(metrics["cvssMetricV31"].blocks[1])
      [] ~Populated(metrics["cvssMetricV31"])
         /\ Populated(metrics["cvssMetricV30"]) ->
            SuffixOf(metrics["cvssMetricV30"].blocks[1])
      [] ~Populated(metrics["cvssMetricV31"])
         /\ ~Populated(metrics["cvssMetricV30"])
         /\ Populated(metrics["cvssMetricV2"]) ->
            SuffixOf(metrics["cvssMetricV2"].blocks[1])
      [] OTHER -> <<>>

EndsWith(s, t) == Len(t) <= Len(s) /\ SubSeq(s, Len(s) - Len(t) + 1, Len(s)) = t

\* the description without its " (Package version: ...)" tail
BeforeVersion(description, version) ==
    IF version = <<>> THEN description
    ELSE Take(description, Len(description) - Len(version) - 2)

Malformed(file) ==
    \/ ~file.exists
    \/ ~file.json
    \/ file.top # "obj"
    \/ file.dependencies.t = "missing" /\ file.devDependencies.t = "missing"
    \/ file.dependencies.t \notin {"missing", "obj"}
    \/ file.devDependencies.t \notin {"missing", "obj"}
    \/ \E k \in 1..Len(file.dependencies.entries) :
          file.dependencies.entries[k].vt # "str"
    \/ \E k \in 1..Len(file.devDependencies.entries) :
          file.devDependencies.entries[k].vt # "str"

\* C8: for a malformed package.json, _parse_package_json raises nothing
\* and returns the empty list.
C8_MalformedYieldsEmpty ==
    (pc # "call" /\ Malformed(arg)) => ret = Returns(<<>>)

\* the line is name, operator, version, then anything: the pair it gives
Versioned(line) ==
    { <<Take(line, n), SubSeq(line, s, e)>> :
        <<n, s, e>> \in
          { t \in (1..Len(line)) \X (1..Len(line)) \X (1..Len(line)) :
              /\ t[1] < t[2] /\ t[2] <= t[3]
              /\ \A k \in 1..t[1] : line[k] \in NameChars
              /\ \A k \in t[2]..t[3] : line[k] \in VersionChars
              /\ t[3] = Len(line) \/ line[t[3] + 1] \notin VersionChars
              /\ \E a, b \in (t[1] + 1)..(t[2] - 1) :
                    /\ a <= b
                    /\ \A k \in (t[1] + 1)..(a - 1) : line[k] \in Whitespace
                    /\ \A k \in a..b : line[k] \in OperatorChars
                    /\ \A k \in (b + 1)..(t[2] - 1) : line[k] \in Whitespace } }

BareName(line) == line # <<>> /\ \A k \in 1..Len(line) : line[k] \in NameChars

\* -e <path or URL>
Editable(line) == Len(line) > 3 /\ Take(line, 3) = <<"-", "e", " ">>

\* scheme://...
Url(line) ==
    \E k \in 2..(Len(line) - 2) :
        /\ SubSeq(line, k, k + 2) = <<":", "/", "/">>
        /\ \A j \in 1..(k - 1) : line[j] \in Letters

\* C9: a line of requirements.txt gives at most one pair: none when blank
\* or a comment, (name, version) when it is name, operator, version,
\* (name, "") when it is a bare name, and none when it is a URL or an
\* editable install.
C9_OnePairPerLine ==
    (pc = "return" /\ Len(arg.lines) = 1) =>
        LET line == Strip(arg.lines[1])
        IN  /\ Len(ret.value) <= 1
            /\ (line = <<>> \/ Head(line) = "#") => ret.value = <<>>
            /\ \A pair \in Versioned(line) : ret.value = <<pair>>
            /\ BareName(line) => ret.value = << <<line, <<>> >> >>
            /\ (Editable(line) \/ Url(line)) => ret.value = <<>>

Valid(file) ==
    /\ file.exists /\ file.json /\ file.top = "obj"
    /\ file.dependencies.t \in {"missing", "obj"}
    /\ file.devDependencies.t \in {"missing", "obj"}
    /\ \A k \in 1..Len(file.dependencies.entries) :
          file.dependencies.entries[k].vt = "str"
    /\ \A k \in 1..Len(file.devDependencies.entries) :
          file.devDependencies.entries[k].vt = "str"

\* the version with its leading operator characters removed and the
\* whitespace around it trimmed, the rest as it is
LeadingStripped(version) ==
    LET v == Strip(version)
    IN  Strip(Drop(v, SpanLen(v, CleanedChars)))

\* C10: for a valid package.json with N dependencies and M devDependencies,
\* _parse_package_json returns N+M pairs, the dependencies first, each
\* version with its leading operator characters removed and trimmed, the
\* rest of the string unchanged.
C10_LeadingOperatorsStripped ==
    (pc = "return" /\ Valid(arg)) =>
        LET entries == arg.dependencies.entries \o arg.devDependencies.entries
        IN  /\ ret.exc = "none"
            /\ Len(ret.value) = Len(entries)
            /\ \A k \in 1..Len(entries) :
                  ret.value[k] = <<entries[k].name,
                                   LeadingStripped(entries[k].version)>>

====
